---- MODULE Spec2Model ----
(***************************************************************************)
(* Two-phase tableau simplex of scipy/optimize/_linprog.py                 *)
(* (_linprog_simplex, lpsimplex, _get_basics), as a state machine.         *)
(*                                                                         *)
(* Numbers.  The tableau is a float64 array in the source.  Here every     *)
(* cell is an exact rational <<p, q>> (q > 0, lowest terms).  For the      *)
(* small integer instances drawn below the two agree up to rounding, and   *)
(* the exact tests of _get_basics (== 1.0, == 0.0) agree exactly: a pivot  *)
(* makes the pivot column an exact unit vector in float arithmetic too.    *)
(***************************************************************************)
EXTENDS Integers, Sequences, FiniteSets, TLC

VARIABLES
    prob,       \* the arguments of the call: c, A_ub, b_ub, A_eq, b_eq, bounds, maxiter, callback
    args,       \* the caller's arrays c, A_ub, b_ub, A_eq, b_eq as they hold now
    first,      \* <<>>, or the outcome of the solve made before this one
    pc,         \* "start", "loop", "ret1", "ret2", "done", "raised"
    T,          \* the tableau (sequence of rows of rationals)
    tableau0,   \* lpsimplex's copy of the tableau taken at the start of the phase
    n,          \* number of variables after the floor variable was added
    n_slack,    \* number of slack columns
    n_artificial, \* number of artificial columns
    L,          \* lower bounds after standardization
    have_floor_variable,
    phase,      \* 0 before the engine runs, then 1, then 2
    nit,        \* lpsimplex's iteration counter
    cycle,      \* lpsimplex's cycle counter
    status,     \* <<>> is None, <<s>> is the integer s
    x,          \* the vector lpsimplex returned last
    res,        \* the Result record linprog returns
    hist        \* history: pivots applied, engine statuses, callback calls, ...

vars == <<prob, args, first, pc, T, tableau0, n, n_slack, n_artificial, L,
          have_floor_variable, phase, nit, cycle, status, x, res, hist>>

-----------------------------------------------------------------------------
(* Bounds of the model *)

\* coefficients of c, A_ub, A_eq of the generated problems lie in -MaxCoef..MaxCoef
MaxCoef == 1
\* right-hand sides of the generated problems lie in -MaxRhs..MaxRhs
MaxRhs == 1
\* iteration caps of the generated problems lie in 0..MaxIter (besides the default)
MaxIter == 2
\* finite bounds of the generated problems lie in -MaxBound..MaxBound
MaxBound == 1

\* maxiter=1000, the default of _linprog_simplex
DefaultMaxiter == 1000

-----------------------------------------------------------------------------
(* Exact rationals *)

Abs(a) == IF a < 0 THEN -a ELSE a

RECURSIVE GCD(_, _)
GCD(a, b) == IF b = 0 THEN a ELSE GCD(b, a % b)

\* p/q for q # 0, in lowest terms with a positive denominator
Frac(p, q) ==
    LET s == IF q < 0 THEN -1 ELSE 1
        g == GCD(Abs(p), Abs(q))
    IN  <<(s * p) \div g, (s * q) \div g>>

R(i) == <<i, 1>>
Zero == <<0, 1>>
One == <<1, 1>>
RAdd(a, b) == IF a[2] = 1 /\ b[2] = 1 THEN <<a[1] + b[1], 1>>
              ELSE Frac(a[1] * b[2] + b[1] * a[2], a[2] * b[2])
RNeg(a) == <<-a[1], a[2]>>
RSub(a, b) == RAdd(a, RNeg(b))
RMul(a, b) == IF a[1] = 0 \/ b[1] = 0 THEN Zero ELSE Frac(a[1] * b[1], a[2] * b[2])
RDiv(a, b) == Frac(a[1] * b[2], a[2] * b[1])
RLt(a, b) == a[1] * b[2] < b[1] * a[2]
RLe(a, b) == a[1] * b[2] <= b[1] * a[2]
RAbs(a) == <<Abs(a[1]), a[2]>>

\* tol = 1.0E-12.  A rational the model can hold has a denominator below
\* 2^31 < 10^12, so p/q < tol exactly when p <= 0, and p/q >= -tol exactly
\* when p >= 0.
LtTol(a) == a[1] <= 0
GeNegTol(a) == a[1] >= 0

-----------------------------------------------------------------------------
(* Extended reals for the bounds: <<-1, 0>> is -inf, <<1, 0>> is +inf,     *)
(* <<0, v>> is the finite value v.                                         *)

NegInf == <<-1, 0>>
PosInf == <<1, 0>>
Fin(v) == <<0, v>>
IsFinite(e) == e[1] = 0
IsInf(e) == e[1] # 0
ExtLt(a, b) == \/ a[1] < b[1]
               \/ a[1] = 0 /\ b[1] = 0 /\ a[2] < b[2]
ExtGt(a, b) == ExtLt(b, a)

-----------------------------------------------------------------------------
(* Sequence helpers *)

Range(s) == {s[i] : i \in 1..Len(s)}
Const(k, v) == [i \in 1..k |-> v]
Unit(k, i, v) == [j \in 1..k |-> IF j = i THEN v ELSE 0]

RECURSIVE SumTo(_, _)
SumTo(f, k) == IF k = 0 THEN 0 ELSE f[k] + SumTo(f, k - 1)

RECURSIVE RSumTo(_, _)
RSumTo(f, k) == IF k = 0 THEN Zero ELSE RAdd(f[k], RSumTo(f, k - 1))

-----------------------------------------------------------------------------
(* _linprog_simplex: analysis of the bounds *)

\* bounds given as a one-element sequence: L = np.asarray(n*bounds[0][0]) and
\* U = np.asarray(n*bounds[0][1]) are 0-d arrays (a number times a number),
\* not arrays of n entries
BoundsAreScalar(p) == Len(p.bounds) = 1

\* status after the bounds were read (0, or -1 when len(bounds) is neither
\* 0, 1 nor n)
BoundsStatus(p) ==
    IF Len(p.bounds) = 0 \/ Len(p.bounds) = 1 THEN 0
    ELSE IF Len(p.bounds) # Len(p.c) THEN -1
    ELSE 0

\* L and U after the bounds were read: the defaults 0 and +inf unless n
\* pairs were given
ReadL(p) ==
    IF Len(p.bounds) > 1 /\ Len(p.bounds) = Len(p.c)
        THEN [i \in 1..Len(p.c) |-> p.bounds[i][1]]
        ELSE Const(Len(p.c), Fin(0))
ReadU(p) ==
    IF Len(p.bounds) > 1 /\ Len(p.bounds) = Len(p.c)
        THEN [i \in 1..Len(p.c) |-> p.bounds[i][2]]
        ELSE Const(Len(p.c), PosInf)

\* the 0-d L or U cannot be concatenated (ValueError) nor indexed
\* (IndexError): with n >= 1 one of the two is always reached
BoundsRaise(p) == BoundsAreScalar(p) /\ Len(p.c) >= 1

AnyFree(Lo) == \E i \in 1..Len(Lo) : Lo[i] = NegInf

\* the problem after the floor variable was prepended (when some L is -inf)
WithFloor(p) ==
    LET Lo == ReadL(p)
        Up == ReadU(p)
        fl == AnyFree(Lo)
    IN  [status |-> BoundsStatus(p),
         n      |-> IF fl THEN Len(p.c) + 1 ELSE Len(p.c),
         L      |-> IF fl THEN <<Fin(0)>> \o Lo ELSE Lo,
         U      |-> IF fl THEN <<PosInf>> \o Up ELSE Up,
         cc     |-> IF fl THEN <<0>> \o p.c ELSE p.c,
         Aeq    |-> IF fl THEN [r \in 1..Len(p.A_eq) |-> <<0>> \o p.A_eq[r]] ELSE p.A_eq,
         Aub    |-> IF fl THEN [r \in 1..Len(p.A_ub) |-> <<0>> \o p.A_ub[r]] ELSE p.A_ub,
         beq    |-> p.b_eq,
         bub    |-> p.b_ub,
         f0     |-> 0,
         have_floor_variable |-> fl]

\* one pass of the first loop over the variables: validation, and finite
\* bounds turned into rows of A_ub
BoundRowsStep(s, i) ==
    LET lo == s.L[i]
        up == s.U[i]
        bad == ExtGt(lo, up) \/ lo = PosInf \/ up = NegInf
        lbrow == IsFinite(lo) /\ lo[2] > 0
        ubrow == IsFinite(up)
        A1 == IF lbrow THEN Append(s.Aub, Unit(s.n, i, -1)) ELSE s.Aub
        b1 == IF lbrow THEN Append(s.bub, -lo[2]) ELSE s.bub
        A2 == IF ubrow THEN Append(A1, Unit(s.n, i, 1)) ELSE A1
        b2 == IF ubrow THEN Append(b1, up[2]) ELSE b1
    IN  [s EXCEPT !.status = IF bad THEN -1 ELSE @,
                  !.Aub = A2,
                  !.bub = b2,
                  !.L = IF lbrow THEN [@ EXCEPT ![i] = Fin(0)] ELSE @,
                  !.U = IF ubrow THEN [@ EXCEPT ![i] = PosInf] ELSE @]

RECURSIVE BoundRows(_, _)
BoundRows(s, i) == IF i > s.n THEN s ELSE BoundRows(BoundRowsStep(s, i), i + 1)

\* one pass of the second loop: change of variables for a finite negative
\* lower bound, substitution x[i] = u[i] - v[0] for a free variable
ShiftStep(s, i) ==
    LET lo == s.L[i]
        s1 == IF ExtLt(lo, Fin(0))
              THEN IF IsFinite(lo)
                   THEN [s EXCEPT
                           !.beq = [r \in 1..Len(@) |-> @[r] - s.Aeq[r][i] * lo[2]],
                           !.bub = [r \in 1..Len(@) |-> @[r] - s.Aub[r][i] * lo[2]],
                           !.f0 = @ - s.cc[i] * lo[2]]
                   ELSE [s EXCEPT
                           !.Aeq = [r \in 1..Len(@) |-> [@[r] EXCEPT ![1] = @ - s.Aeq[r][i]]],
                           !.Aub = [r \in 1..Len(@) |-> [@[r] EXCEPT ![1] = @ - s.Aub[r][i]]],
                           !.cc = [@ EXCEPT ![1] = @ - s.cc[i]]]
              ELSE s
    IN  [s1 EXCEPT !.status = IF s.U[i] = NegInf THEN -1 ELSE @]

RECURSIVE Shift(_, _)
Shift(s, i) == IF i > s.n THEN s ELSE Shift(ShiftStep(s, i), i + 1)

\* the checks of the shapes of A_ub, b_ub, A_eq, b_eq
ShapeStatus(s) ==
    IF \/ Len(s.Aeq) # Len(s.beq)
       \/ Len(s.Aub) # Len(s.bub)
       \/ \E r \in 1..Len(s.Aeq) : Len(s.Aeq[r]) # s.n
       \/ \E r \in 1..Len(s.Aub) : Len(s.Aub[r]) # s.n
    THEN -1 ELSE s.status

\* the standardized problem, with the status of the validation
Standardized(p) ==
    LET s == Shift(BoundRows(WithFloor(p), 1), 1)
    IN  [s EXCEPT !.status = ShapeStatus(s)]

\* the arrays given as c, A_ub, b_ub, A_eq, b_eq
ArraysOf(p) ==
    [c |-> p.c, A_ub |-> p.A_ub, b_ub |-> p.b_ub, A_eq |-> p.A_eq, b_eq |-> p.b_eq]

\* the caller's arrays after the two loops.  cc, Aeq, Aub, beq and bub are
\* np.asarray of the arguments, the caller's own arrays (the caller passes
\* ndarrays), and the assignments to cc[0], Aeq[:,0], Aub[:,0], beq[:] and
\* bub[:] write into the array the name is bound to.  cc, Aeq and Aub are
\* new arrays once the floor variable was prepended, Aub and bub are new
\* arrays once a bound's row was appended; beq is never rebound.
CallerArrays(p) ==
    LET s0 == BoundRows(WithFloor(p), 1)
        s == Shift(s0, 1)
        fl == s.have_floor_variable
        appended == Len(s0.bub) # Len(p.b_ub)
    IN  [c    |-> IF fl THEN p.c ELSE s.cc,
         A_ub |-> IF fl \/ appended THEN p.A_ub ELSE s.Aub,
         b_ub |-> IF appended THEN p.b_ub ELSE s.bub,
         A_eq |-> IF fl THEN p.A_eq ELSE s.Aeq,
         b_eq |-> s.beq]

-----------------------------------------------------------------------------
(* _linprog_simplex: the tableau *)

\* constraint row r of the tableau: equality rows first, then inequality
\* rows with their slack column; a row with a negative right-hand side is
\* negated; then the artificial column of the row
TableauRow(s, r) ==
    LET meq == Len(s.beq)
        mub == Len(s.bub)
        m == meq + mub
        a == IF r <= meq THEN s.Aeq[r] ELSE s.Aub[r - meq]
        b == IF r <= meq THEN s.beq[r] ELSE s.bub[r - meq]
        sg == IF b < 0 THEN -1 ELSE 1
    IN  [j \in 1..(s.n + mub + m + 1) |->
            IF j <= s.n THEN R(sg * a[j])
            ELSE IF j <= s.n + mub
                 THEN (IF r > meq /\ j - s.n = r - meq THEN R(sg) ELSE Zero)
            ELSE IF j <= s.n + mub + m
                 THEN (IF j - s.n - mub = r THEN One ELSE Zero)
            ELSE R(sg * b)]

ObjectiveRow(s) ==
    LET mub == Len(s.bub)
        m == Len(s.beq) + mub
    IN  [j \in 1..(s.n + mub + m + 1) |->
            IF j <= s.n THEN R(s.cc[j])
            ELSE IF j <= s.n + mub + m THEN Zero
            ELSE R(s.f0)]

\* the Phase 1 objective: 1 in the artificial columns, minus every
\* constraint row
PseudoRow(s, rows) ==
    LET mub == Len(s.bub)
        m == Len(s.beq) + mub
    IN  [j \in 1..(s.n + mub + m + 1) |->
            RSub(IF j > s.n + mub /\ j <= s.n + mub + m THEN One ELSE Zero,
                 RSumTo([r \in 1..m |-> rows[r][j]], m))]

BuildTableau(s) ==
    LET m == Len(s.beq) + Len(s.bub)
        rows == [r \in 1..m |-> TableauRow(s, r)]
    IN  rows \o <<ObjectiveRow(s), PseudoRow(s, rows)>>

-----------------------------------------------------------------------------
(* _get_basics *)

NRows(t) == Len(t)
NCols(t) == Len(t[1])

\* the column has exactly one entry 1.0 and every other entry, the
\* objective rows included, is 0.0
IsBasicColumn(t, col) ==
    /\ Cardinality({r \in 1..NRows(t) : t[r][col] = One}) = 1
    /\ Cardinality({r \in 1..NRows(t) : t[r][col] = Zero}) = NRows(t) - 1

\* the rows of tableau[:-1, col] that are not zero
NonzeroRows(t, col) == {r \in 1..(NRows(t) - 1) : t[r][col] # Zero}

\* np.nonzero(tableau[:-1,col])[0][0] raises IndexError for a column read as
\* basic whose single 1 is in the last row
GetBasicsRaises(t) ==
    \E col \in 1..(NCols(t) - 1) : IsBasicColumn(t, col) /\ NonzeroRows(t, col) = {}

\* the value of a basic column: the RHS of its first nonzero row among
\* tableau[:-1]
BasicValue(t, col) ==
    LET rows == NonzeroRows(t, col)
        nonzero_row == CHOOSE r \in rows : \A q \in rows : r <= q
    IN  t[nonzero_row][NCols(t)]

\* the solution vector lpsimplex fills from _get_basics: the basic columns
\* in increasing order, stopping at the first that is not a structural one
SolutionVector(t, nn) ==
    [i \in 1..nn |-> IF i <= NCols(t) - 1 /\ IsBasicColumn(t, i)
                     THEN BasicValue(t, i) ELSE Zero]

-----------------------------------------------------------------------------
(* lpsimplex: one iteration *)

\* the status lpsimplex enters its loop with: for a phase other than 1 and
\* 2 status = -1 is assigned first, and then status = None is assigned
\* whatever the phase
StatusAtEntry(ph) == <<>>

\* np.argmin(tableau[-1,:-1]): the first column holding the minimum
PivCol(t) ==
    LET row == t[NRows(t)]
        k == NCols(t) - 1
    IN  CHOOSE j \in 1..k :
            /\ \A i \in 1..k : RLe(row[j], row[i])
            /\ \A i \in 1..(j - 1) : RLt(row[j], row[i])

\* the rows the ratio test looks at: tableau[:-2] in Phase 1, tableau[:-1]
\* otherwise
ConstraintRows(t, ph) == 1..(IF ph = 1 THEN NRows(t) - 2 ELSE NRows(t) - 1)

\* rows with a strictly positive entry in the pivot column
Eligible(t, ph, pivcol) == {r \in ConstraintRows(t, ph) : RLt(Zero, t[r][pivcol])}

Ratio(t, r, pivcol) == RDiv(t[r][NCols(t)], t[r][pivcol])

\* r comes before q in row_quotient: sorted by the ratio, and among equal
\* ratios in the order of the first sort, by the value in the pivot column,
\* and among equal values by row index (both sorts keep the order of equal
\* keys for arrays this small)
Before(t, pivcol, r, q) ==
    LET rr == Ratio(t, r, pivcol)
        rq == Ratio(t, q, pivcol)
    IN  \/ RLt(rr, rq)
        \/ rr = rq /\ RLt(t[r][pivcol], t[q][pivcol])
        \/ rr = rq /\ t[r][pivcol] = t[q][pivcol] /\ r < q

\* row_quotient[cycle][0]: the eligible row at position cycle; <<>> when
\* there is none (IndexError)
PivRow(t, ph, pivcol, cyc) ==
    LET el == Eligible(t, ph, pivcol)
        at == {r \in el : Cardinality({q \in el : Before(t, pivcol, q, r)}) = cyc}
    IN  IF at = {} THEN <<>> ELSE <<CHOOSE r \in at : TRUE>>

\* np.all(tableau[-1,:-1] >= -tol)
IsOptimal(t) == \A j \in 1..(NCols(t) - 1) : GeNegTol(t[NRows(t)][j])

\* the Gauss-Jordan pivot on (pivrow, pivcol)
Pivot(t, pivrow, pivcol) ==
    LET pivval == t[pivrow][pivcol]
        prow == [j \in 1..NCols(t) |-> RDiv(t[pivrow][j], pivval)]
    IN  [irow \in 1..NRows(t) |->
            IF irow = pivrow THEN prow
            ELSE [j \in 1..NCols(t) |->
                    RSub(t[irow][j], RMul(prow[j], t[irow][pivcol]))]]

\* 2**n
RECURSIVE Pow2(_)
Pow2(k) == IF k = 0 THEN 1 ELSE 2 * Pow2(k - 1)

\* the cycle counter after the test at the top of the iteration
CycleAfterTest(t, t0, nn, it, cyc) ==
    IF it > Pow2(nn) /\ t = t0 THEN cyc + 1 ELSE cyc

-----------------------------------------------------------------------------
(* _linprog_simplex: between and after the phases *)

PseudoObjective(t) == t[NRows(t)][NCols(t)]

\* abs(T[-1,-1]) < tol
PhaseOneFeasible(t) == LtTol(RAbs(PseudoObjective(t)))

\* T[:-1,:] without the artificial columns
DropArtificial(t, nn, ns, na) ==
    [r \in 1..(NRows(t) - 1) |->
        [j \in 1..(nn + ns + 1) |-> IF j <= nn + ns THEN t[r][j] ELSE t[r][NCols(t)]]]

\* (mutant) the test without abs(): T[-1,-1] < tol
StatusAfterPhaseOneNoAbs(t, st) == IF LtTol(PseudoObjective(t)) THEN st ELSE <<2>>

\* the status after Phase 1: the engine's, or 2 when the pseudo-objective
\* is not zero
StatusAfterPhaseOne(t, st) == IF PhaseOneFeasible(t) THEN st ELSE <<2>>

\* (mutant) Phase 2 called without nit0
PhaseTwoNit0Restart(nit1) == 0

\* nit0=nit1: the iteration count Phase 2 starts from
PhaseTwoNit0(nit1) == nit1

\* (mutant) the floor variable's slot is dropped but its value is not
\* subtracted
BackSubstituteNoFloor(xv, Lo, fl) ==
    LET shifted == [i \in 1..Len(xv) |->
                       IF IsInf(Lo[i]) THEN xv[i] ELSE RAdd(xv[i], R(Lo[i][2]))]
    IN  IF fl THEN [i \in 1..(Len(xv) - 1) |-> shifted[i + 1]] ELSE shifted

\* x + masked_L, then for a floor variable x[i] -= x[0] for the free
\* variables and x = x[1:]
BackSubstitute(xv, Lo, fl) ==
    LET shifted == [i \in 1..Len(xv) |->
                       IF IsInf(Lo[i]) THEN xv[i] ELSE RAdd(xv[i], R(Lo[i][2]))]
    IN  IF fl
        THEN [i \in 1..(Len(xv) - 1) |->
                 IF IsInf(Lo[i + 1]) THEN RSub(shifted[i + 1], shifted[1])
                 ELSE shifted[i + 1]]
        ELSE shifted

\* (mutant) success=(status in (0,1))
SuccessAlsoAtLimit(st) == st \in {<<0>>, <<1>>}

\* success=(status == 0)
Success(st) == st = <<0>>

NoResult == [x |-> <<>>, fun |-> Zero, nit |-> 0, status |-> <<>>, success |-> FALSE]

-----------------------------------------------------------------------------
(* The problems solved *)

Coefs == -MaxCoef..MaxCoef
Rhs == -MaxRhs..MaxRhs
Caps == 0..MaxIter \cup {DefaultMaxiter}

Problem(c, Aub, bub, Aeq, beq, bnds, mi, cb) ==
    [c |-> c, A_ub |-> Aub, b_ub |-> bub, A_eq |-> Aeq, b_eq |-> beq,
     bounds |-> bnds, maxiter |-> mi, callback |-> cb]

\* two variables, default bounds, at most one constraint row; every
\* iteration cap for the problems without a row or with an inequality row
EngineProblems ==
    LET vecs == {<<a, b>> : a \in Coefs, b \in Coefs}
    IN       {Problem(c, <<>>, <<>>, <<>>, <<>>, <<>>, mi, FALSE) :
                   c \in vecs, mi \in Caps}
        \cup {Problem(c, <<a>>, <<b>>, <<>>, <<>>, <<>>, mi, FALSE) :
                   c \in vecs, a \in vecs, b \in Rhs, mi \in Caps}
        \cup {Problem(c, <<>>, <<>>, <<a>>, <<b>>, <<>>, DefaultMaxiter, FALSE) :
                   c \in vecs, a \in vecs, b \in Rhs}

BoundValues == {NegInf, PosInf} \cup {Fin(v) : v \in -MaxBound..MaxBound}
BoundPairs == {<<lo, up>> : lo \in BoundValues, up \in BoundValues}

\* every sequence of at most k pairs, and k+1 times the same pair
BoundSeqs(k) ==
    {<<>>} \cup {<<p>> : p \in BoundPairs}
    \cup (IF k = 1 THEN {<<p, p>> : p \in BoundPairs}
          ELSE {<<p, q>> : p \in BoundPairs, q \in BoundPairs}
               \cup {<<p, p, p>> : p \in BoundPairs})

\* one or two variables, every form of bounds, a few objectives and rows
BoundsProblems ==
         {Problem(<<s>>, A, [r \in 1..Len(A) |-> 1], <<>>, <<>>, bnds,
                  DefaultMaxiter, FALSE) :
              s \in {-1, 1}, A \in {<<>>, <<<<1>>>>}, bnds \in BoundSeqs(1)}
    \cup {Problem(<<s, s>>, <<<<1, 1>>>>, <<1>>, <<>>, <<>>, bnds,
                  DefaultMaxiter, FALSE) :
              s \in {-1, 1}, bnds \in BoundSeqs(2)}
    \cup {Problem(<<1, 1>>, <<>>, <<>>, <<<<1, -1>>>>, <<0>>, bnds,
                  DefaultMaxiter, FALSE) :
              bnds \in BoundSeqs(2)}

\* minimize c0*x0 + c1*x1 s.t. -3*x0 + x1 <= 6, x0 + 2*x1 <= 4,
\* x0 free, x1 >= -3 (the example of the docstrings)
DocExample(c, mi, cb) ==
    Problem(c, <<<<-3, 1>>, <<1, 2>>>>, <<6, 4>>, <<>>, <<>>,
            <<<<NegInf, PosInf>>, <<Fin(-3), PosInf>>>>, mi, cb)

\* x >= 5 and x <= 2
InfeasibleExample(mi, cb) ==
    Problem(<<1>>, <<<<-1>>, <<1>>>>, <<-5, 2>>, <<>>, <<>>, <<>>, mi, cb)

\* maximize x subject only to x >= 0
UnboundedExample(mi, cb) ==
    Problem(<<-1>>, <<>>, <<>>, <<>>, <<>>, <<>>, mi, cb)

\* minimize x subject to x >= -7, x free: the bounds as one pair for
\* the one variable
FreeExample(mi, cb) ==
    Problem(<<1>>, <<<<-1>>>>, <<7>>, <<>>, <<>>, <<<<NegInf, PosInf>>>>, mi, cb)

\* the same with bounds of two entries, as the flat pair (lb, ub) has: of
\* a sequence longer than one and other than n only the length is read
FreeExampleFlat(mi, cb) ==
    Problem(<<1>>, <<<<-1>>>>, <<7>>, <<>>, <<>>,
            <<<<NegInf, PosInf>>, <<NegInf, PosInf>>>>, mi, cb)

\* the same with a second variable, so that n pairs can be given
FreeExampleTwo(mi, cb) ==
    Problem(<<1, 0>>, <<<<-1, 0>>>>, <<7>>, <<>>, <<>>,
            <<<<NegInf, PosInf>>, <<Fin(0), PosInf>>>>, mi, cb)

\* maximize 3*x0 + 2*x1 s.t. x0 + x1 <= 4, x0 + 3*x1 <= 6, x0 <= 3
TextbookExample(mi, cb) ==
    Problem(<<-3, -2>>, <<<<1, 1>>, <<1, 3>>, <<1, 0>>>>, <<4, 6, 3>>,
            <<>>, <<>>, <<>>, mi, cb)

\* A_ub with one row and b_ub with two entries
MisshapenExample(mi, cb) ==
    Problem(<<1, 1>>, <<<<1, 1>>>>, <<1, 2>>, <<>>, <<>>, <<>>, mi, cb)

\* minimize c*x s.t. x >= 1, x >= -1, x <= 1: one variable and three
\* rows, so that Phase 1 pivots more than 2**n times
ThreeRowExample(c, mi, cb) ==
    Problem(c, <<<<-1>>, <<-1>>, <<1>>>>, <<-1, 1, 1>>, <<>>, <<>>, <<>>, mi, cb)

NamedProblems ==
    LET caps == -1..(MaxIter + 3) \cup {DefaultMaxiter}
    IN  UNION {{DocExample(c, mi, cb), InfeasibleExample(mi, cb),
                ThreeRowExample(<<1>>, mi, cb), ThreeRowExample(<<-1>>, mi, cb),
                UnboundedExample(mi, cb), FreeExample(mi, cb),
                FreeExampleFlat(mi, cb), FreeExampleTwo(mi, cb),
                TextbookExample(mi, cb), MisshapenExample(mi, cb)} :
               c \in {<<1, 4>>, <<1, -4>>, <<-1, 4>>}, mi \in caps, cb \in BOOLEAN}

Problems == EngineProblems \cup BoundsProblems \cup NamedProblems

-----------------------------------------------------------------------------
(* The state machine *)

\* pivots: pivots applied so far; engine: the status each run of lpsimplex
\* returned; nit1, pseudo: the iteration count and the pseudo-objective cell
\* when Phase 1 returned; eligible: the number of rows the last ratio test
\* found; calls: the payloads the callback was called with; applied: for
\* every pivot applied, its iteration, phase, (row, column), the tableau it
\* was applied to, the cycle counter of its ratio test, and the number of
\* calls of the callback made before it
NoHistory == [pivots |-> 0, engine |-> <<>>, nit1 |-> <<>>, pseudo |-> <<>>,
              eligible |-> <<>>, calls |-> <<>>, applied |-> <<>>]

Init ==
    /\ prob \in Problems
    /\ args = ArraysOf(prob)
    /\ first = <<>>
    /\ pc = "start"
    /\ T = <<>>
    /\ tableau0 = <<>>
    /\ n = Len(prob.c)
    /\ n_slack = 0
    /\ n_artificial = 0
    /\ L = <<>>
    /\ have_floor_variable = FALSE
    /\ phase = 0
    /\ nit = 0
    /\ cycle = 0
    /\ status = <<0>>
    /\ x = <<>>
    /\ res = NoResult
    /\ hist = NoHistory

\* the call raises while the bounds are analysed
StartRaise ==
    /\ pc = "start"
    /\ BoundsRaise(prob)
    /\ pc' = "raised"
    /\ UNCHANGED <<prob, args, first, T, tableau0, n, n_slack, n_artificial, L,
                   have_floor_variable, phase, nit, cycle, status, x, res, hist>>

\* invalid input: the Result is returned before a tableau is built
StartInvalid ==
    /\ pc = "start"
    /\ ~BoundsRaise(prob)
    /\ LET s == Standardized(prob)
       IN  /\ s.status # 0
           /\ n' = s.n
           /\ L' = s.L
           /\ have_floor_variable' = s.have_floor_variable
           /\ status' = <<s.status>>
           /\ res' = [x |-> Const(Len(s.cc), Zero), fun |-> Zero, nit |-> 0,
                      status |-> <<s.status>>, success |-> FALSE]
    /\ args' = CallerArrays(prob)
    /\ pc' = "done"
    /\ UNCHANGED <<prob, first, T, tableau0, n_slack, n_artificial, phase, nit, cycle,
                   x, hist>>

\* valid input: the tableau is built and lpsimplex is entered for Phase 1
StartPhaseOne ==
    /\ pc = "start"
    /\ ~BoundsRaise(prob)
    /\ LET s == Standardized(prob)
       IN  /\ s.status = 0
           /\ n' = s.n
           /\ L' = s.L
           /\ have_floor_variable' = s.have_floor_variable
           /\ n_slack' = Len(s.bub)
           /\ n_artificial' = Len(s.bub) + Len(s.beq)
           /\ T' = BuildTableau(s)
           /\ tableau0' = BuildTableau(s)
           /\ x' = Const(s.n, Zero)
    /\ args' = CallerArrays(prob)
    /\ phase' = 1
    /\ nit' = 0
    /\ cycle' = 0
    /\ status' = StatusAtEntry(1)
    /\ pc' = "loop"
    /\ UNCHANGED <<prob, first, res, hist>>

\* where lpsimplex returns to
Ret == IF phase = 1 THEN "ret1" ELSE "ret2"

\* (mutant) the callback is given (column, row)
CallPivotSwapped(pivrow, pivcol) == <<<<pivcol>>, pivrow[1]>>

\* "pivot":(pivrow,pivcol); the row is <<r>>, and <<>> would be nan
CallPivot(pivrow, pivcol) == <<pivrow, pivcol>>

\* the payload of one call of the callback
Call(pivrow, pivcol, st) ==
    [iter |-> nit, phase |-> phase, pivot |-> CallPivot(pivrow, pivcol),
     tableau |-> T, complete |-> (st # <<>> /\ phase = 2)]

\* one iteration of the while loop of lpsimplex in which no pivot row is
\* found: status 3, break, and lpsimplex returns
IterateUnbounded ==
    /\ pc = "loop"
    /\ nit < prob.maxiter /\ status = <<>>
    /\ LET cyc == CycleAfterTest(T, tableau0, n, nit, cycle)
           pivcol == PivCol(T)
       IN  /\ PivRow(T, phase, pivcol, cyc) = <<>>
           /\ cycle' = cyc
           /\ hist' = [hist EXCEPT !.eligible = <<Cardinality(Eligible(T, phase, pivcol))>>,
                                   !.engine = Append(@, 3),
                                   !.nit1 = IF phase = 1 THEN <<nit>> ELSE @,
                      !.pseudo = IF phase = 1 THEN <<PseudoObjective(T)>> ELSE @]
    /\ status' = <<3>>
    /\ IF GetBasicsRaises(T)
       THEN pc' = "raised" /\ x' = x
       ELSE pc' = Ret /\ x' = SolutionVector(T, n)
    /\ UNCHANGED <<prob, args, first, T, tableau0, n, n_slack, n_artificial, L,
                   have_floor_variable, phase, nit, res>>

\* one iteration of the while loop of lpsimplex with a pivot row: the
\* optimality test, the callback, and the pivot when the test fails
Iterate ==
    /\ pc = "loop"
    /\ nit < prob.maxiter /\ status = <<>>
    /\ LET cyc == CycleAfterTest(T, tableau0, n, nit, cycle)
           pivcol == PivCol(T)
           pr == PivRow(T, phase, pivcol, cyc)
           st == IF IsOptimal(T) THEN <<0>> ELSE <<>>
       IN  /\ pr # <<>>
           /\ cycle' = 0
           /\ IF prob.callback /\ GetBasicsRaises(T)
              THEN /\ pc' = "raised"
                   /\ UNCHANGED <<T, nit, status>>
                   /\ hist' = [hist EXCEPT !.eligible = <<Cardinality(Eligible(T, phase, pivcol))>>]
              ELSE /\ pc' = "loop"
                   /\ status' = st
                   /\ T' = IF st = <<>> THEN Pivot(T, pr[1], pivcol) ELSE T
                   /\ nit' = IF st = <<>> THEN nit + 1 ELSE nit
                   /\ hist' = [hist EXCEPT
                        !.eligible = <<Cardinality(Eligible(T, phase, pivcol))>>,
                        !.pivots = IF st = <<>> THEN @ + 1 ELSE @,
                        !.calls = IF prob.callback
                                  THEN Append(@, Call(pr, pivcol, st)) ELSE @,
                        !.applied = IF st = <<>>
                                    THEN Append(@, [iter |-> nit, phase |-> phase,
                                                    pivot |-> <<pr, pivcol>>,
                                                    before |-> T, cycle |-> cyc,
                                                    calls |-> Len(hist.calls) +
                                                       (IF prob.callback THEN 1 ELSE 0)])
                                    ELSE @]
    /\ UNCHANGED <<prob, args, first, tableau0, n, n_slack, n_artificial, L,
                   have_floor_variable, phase, x, res>>

\* the while loop ends by its condition: the else clause sets the status,
\* the solution is read and lpsimplex returns
LoopExit ==
    /\ pc = "loop"
    /\ ~(nit < prob.maxiter /\ status = <<>>)
    /\ status' = IF nit >= prob.maxiter THEN <<1>> ELSE <<0>>
    /\ hist' = [hist EXCEPT !.engine = Append(@, IF nit >= prob.maxiter THEN 1 ELSE 0),
                            !.nit1 = IF phase = 1 THEN <<nit>> ELSE @,
                      !.pseudo = IF phase = 1 THEN <<PseudoObjective(T)>> ELSE @]
    /\ IF GetBasicsRaises(T)
       THEN pc' = "raised" /\ x' = x
       ELSE pc' = Ret /\ x' = SolutionVector(T, n)
    /\ UNCHANGED <<prob, args, first, T, tableau0, n, n_slack, n_artificial, L,
                   have_floor_variable, phase, nit, cycle, res>>

\* after Phase 1, status # 0: the Result is returned without Phase 2
PhaseOneFailed ==
    /\ pc = "ret1"
    /\ StatusAfterPhaseOne(T, status) # <<0>>
    /\ LET t1 == IF PhaseOneFeasible(T)
                 THEN DropArtificial(T, n, n_slack, n_artificial) ELSE T
       IN  /\ T' = t1
           /\ res' = [x |-> x, fun |-> RNeg(t1[NRows(t1)][NCols(t1)]), nit |-> nit,
                      status |-> StatusAfterPhaseOne(T, status), success |-> FALSE]
    /\ status' = StatusAfterPhaseOne(T, status)
    /\ pc' = "done"
    /\ UNCHANGED <<prob, args, first, tableau0, n, n_slack, n_artificial, L,
                   have_floor_variable, phase, nit, cycle, x, hist>>

\* after Phase 1, status 0: lpsimplex is entered for Phase 2 on the
\* tableau without the pseudo-objective row and the artificial columns
PhaseTwoStart ==
    /\ pc = "ret1"
    /\ StatusAfterPhaseOne(T, status) = <<0>>
    /\ T' = DropArtificial(T, n, n_slack, n_artificial)
    /\ tableau0' = DropArtificial(T, n, n_slack, n_artificial)
    /\ phase' = 2
    /\ nit' = PhaseTwoNit0(nit)
    /\ cycle' = 0
    /\ status' = StatusAtEntry(2)
    /\ x' = Const(n, Zero)
    /\ pc' = "loop"
    /\ UNCHANGED <<prob, args, first, n, n_slack, n_artificial, L, have_floor_variable, res, hist>>

\* after Phase 2: the change of variables is reversed and the Result is
\* returned
Finish ==
    /\ pc = "ret2"
    /\ res' = [x |-> BackSubstitute(x, L, have_floor_variable),
               fun |-> RNeg(T[NRows(T)][NCols(T)]), nit |-> nit,
               status |-> status, success |-> Success(status)]
    /\ pc' = "done"
    /\ UNCHANGED <<prob, args, first, T, tableau0, n, n_slack, n_artificial, L,
                   have_floor_variable, phase, nit, cycle, status, x, hist>>

Next ==
    \/ StartRaise
    \/ StartInvalid
    \/ StartPhaseOne
    \/ IterateUnbounded
    \/ Iterate
    \/ LoopExit
    \/ PhaseOneFailed
    \/ PhaseTwoStart
    \/ Finish

Spec == Init /\ [][Next]_vars

-----------------------------------------------------------------------------
(* Two calls of linprog, one after the other *)

\* one or two variables, no bounds, one pair, or the same pair for every
\* variable; and the example of the docstrings
TwiceProblems ==
    LET bnds(k) == {<<>>} \cup {<<p>> : p \in BoundPairs}
                          \cup {Const(k, p) : p \in BoundPairs}
    IN       {Problem(<<s>>, A, [r \in 1..Len(A) |-> 1], <<>>, <<>>, b,
                      DefaultMaxiter, FALSE) :
                  s \in {-1, 1}, A \in {<<>>, <<<<1>>>>}, b \in bnds(1)}
        \cup {Problem(<<s, s>>, <<<<1, 1>>>>, <<1>>, <<>>, <<>>, b,
                      DefaultMaxiter, FALSE) :
                  s \in {-1, 1}, b \in bnds(2)}
        \cup {Problem(<<1, 1>>, <<>>, <<>>, <<<<1, -1>>>>, <<0>>, b,
                      DefaultMaxiter, FALSE) :
                  b \in bnds(2)}
        \cup {DocExample(<<1, -4>>, DefaultMaxiter, FALSE)}

InitTwice ==
    /\ prob \in TwiceProblems
    /\ args = ArraysOf(prob)
    /\ first = <<>>
    /\ pc = "start"
    /\ T = <<>>
    /\ tableau0 = <<>>
    /\ n = Len(prob.c)
    /\ n_slack = 0
    /\ n_artificial = 0
    /\ L = <<>>
    /\ have_floor_variable = FALSE
    /\ phase = 0
    /\ nit = 0
    /\ cycle = 0
    /\ status = <<0>>
    /\ x = <<>>
    /\ res = NoResult
    /\ hist = NoHistory

\* the first call has ended (returned or raised) and linprog is called
\* again with the arguments q; the caller's arrays are those held by b
CallAgain(kind, q, b) ==
    /\ pc \in {"done", "raised"}
    /\ first = <<>>
    /\ first' = <<[kind |-> kind, prob |-> prob, pc |-> pc, res |-> res]>>
    /\ prob' = [q EXCEPT !.c = b.c, !.A_ub = b.A_ub, !.b_ub = b.b_ub,
                         !.A_eq = b.A_eq, !.b_eq = b.b_eq]
    /\ args' = b
    /\ pc' = "start"
    /\ T' = <<>>
    /\ tableau0' = <<>>
    /\ n' = Len(q.c)
    /\ n_slack' = 0
    /\ n_artificial' = 0
    /\ L' = <<>>
    /\ have_floor_variable' = FALSE
    /\ phase' = 0
    /\ nit' = 0
    /\ cycle' = 0
    /\ status' = <<0>>
    /\ x' = <<>>
    /\ res' = NoResult
    /\ hist' = NoHistory

\* the same call again, with the same objects: the arrays as they are now
SolveSame ==
    /\ first = <<>>
    /\ CallAgain("same", prob, args)

\* a call without bounds is followed by the call with (0, +inf) given for
\* every variable, on fresh arrays
SolveExplicit ==
    /\ prob.bounds = <<>>
    /\ CallAgain("explicit",
                 [prob EXCEPT !.bounds = Const(Len(prob.c), <<Fin(0), PosInf>>)],
                 ArraysOf(prob))

\* a call with one pair is followed by the call with that pair given once
\* for every variable, on fresh arrays
SolveRepeated ==
    /\ Len(prob.bounds) = 1
    /\ CallAgain("repeated",
                 [prob EXCEPT !.bounds = Const(Len(prob.c), prob.bounds[1])],
                 ArraysOf(prob))

NextTwice ==
    \/ Next
    \/ SolveSame
    \/ SolveExplicit
    \/ SolveRepeated

SpecTwice == InitTwice /\ [][NextTwice]_vars

-----------------------------------------------------------------------------
(* lpsimplex called on its own *)

\* the values given as phase: 1 and 2, and two that are neither
EnginePhases == {0, 1, 2, 3}

\* the problems whose tableaus are given to lpsimplex
EngineCalls ==
    {p \in EngineProblems : p.maxiter = DefaultMaxiter /\ Len(p.A_ub) = 1}
    \cup {TextbookExample(mi, cb) : mi \in {1, DefaultMaxiter}, cb \in BOOLEAN}

\* lpsimplex is about to be called with the tableau of a problem: for
\* phase=1 the tableau with the pseudo-objective row and the artificial
\* columns, otherwise the tableau without them
InitEngine ==
    /\ prob \in EngineCalls
    /\ phase \in EnginePhases
    /\ args = ArraysOf(prob)
    /\ first = <<>>
    /\ pc = "enter"
    /\ LET s == Standardized(prob)
           t == BuildTableau(s)
       IN  /\ n = s.n
           /\ n_slack = Len(s.bub)
           /\ n_artificial = IF phase = 1 THEN Len(s.bub) + Len(s.beq) ELSE 0
           /\ L = s.L
           /\ T = IF phase = 1 THEN t
                  ELSE DropArtificial(t, s.n, Len(s.bub), Len(s.bub) + Len(s.beq))
    /\ tableau0 = <<>>
    /\ have_floor_variable = FALSE
    /\ nit = 0
    /\ cycle = 0
    /\ status = <<>>
    /\ x = <<>>
    /\ res = NoResult
    /\ hist = NoHistory

\* lpsimplex from its first line to the head of its loop
EngineEnter ==
    /\ pc = "enter"
    /\ tableau0' = T
    /\ status' = StatusAtEntry(phase)
    /\ cycle' = 0
    /\ x' = Const(n, Zero)
    /\ pc' = "loop"
    /\ UNCHANGED <<prob, args, first, T, n, n_slack, n_artificial, L,
                   have_floor_variable, phase, nit, res, hist>>

\* lpsimplex alone: at "ret1" (phase 1) or "ret2" (any other phase) it has
\* returned to its caller
NextEngine ==
    \/ EngineEnter
    \/ IterateUnbounded
    \/ Iterate
    \/ LoopExit

SpecEngine == InitEngine /\ [][NextEngine]_vars

-----------------------------------------------------------------------------
(* What the claims are stated with *)

\* candidate points and multipliers have integer entries in -GridMax..GridMax
GridMax == 2

Returned == pc = "done"
Ended == pc \in {"done", "raised"}
AllZero(v) == \A i \in 1..Len(v) : v[i] = Zero

\* the bounds of variable i as the caller gave them
CallerLower(p, i) == IF p.bounds = <<>> THEN Fin(0) ELSE p.bounds[i][1]
CallerUpper(p, i) == IF p.bounds = <<>> THEN PosInf ELSE p.bounds[i][2]

RDot(a, v) == RSumTo([i \in 1..Len(a) |-> RMul(R(a[i]), v[i])], Len(a))

\* v (a vector of rationals, one entry per variable of the caller) meets the
\* constraints and the bounds of problem p
IsFeasible(p, v) ==
    /\ Len(v) = Len(p.c)
    /\ \A r \in 1..Len(p.A_ub) : RLe(RDot(p.A_ub[r], v), R(p.b_ub[r]))
    /\ \A r \in 1..Len(p.A_eq) : RDot(p.A_eq[r], v) = R(p.b_eq[r])
    /\ \A i \in 1..Len(p.c) :
          /\ IsFinite(CallerLower(p, i)) => RLe(R(CallerLower(p, i)[2]), v[i])
          /\ IsFinite(CallerUpper(p, i)) => RLe(v[i], R(CallerUpper(p, i)[2]))

Objective(p, v) == RDot(p.c, v)

GridPoints(k) == {[i \in 1..k |-> R(f[i])] : f \in [1..k -> -GridMax..GridMax]}

\* a feasible point with small integer entries exists
HasGridFeasiblePoint(p) == \E y \in GridPoints(Len(p.c)) : IsFeasible(p, y)

\* with the default bounds x >= 0: multipliers u >= 0 (inequality rows) and
\* v (equality rows) with c + A_ub'u + A_eq'v >= 0 exist, so that c.x is at
\* least -(u.b_ub + v.b_eq) at every feasible x (weak duality)
HasLowerBoundCertificate(p) ==
    /\ p.bounds = <<>>
    /\ \E u \in [1..Len(p.A_ub) -> 0..GridMax], v \in [1..Len(p.A_eq) -> -GridMax..GridMax] :
          \A j \in 1..Len(p.c) :
              p.c[j] + SumTo([r \in 1..Len(p.A_ub) |-> u[r] * p.A_ub[r][j]], Len(p.A_ub))
                     + SumTo([r \in 1..Len(p.A_eq) |-> v[r] * p.A_eq[r][j]], Len(p.A_eq)) >= 0

\* a sufficient test for "feasible with a finite optimum"
HasFiniteOptimum(p) == HasLowerBoundCertificate(p) /\ HasGridFeasiblePoint(p)

\* some bound is malformed: a length other than 0, 1 or n, or a pair with
\* lb > ub, lb = +inf or ub = -inf
InvalidBounds(p) ==
    \/ Len(p.bounds) \notin {0, 1, Len(p.c)}
    \/ \E i \in 1..Len(p.bounds) :
          \/ ExtGt(p.bounds[i][1], p.bounds[i][2])
          \/ p.bounds[i][1] = PosInf
          \/ p.bounds[i][2] = NegInf

-----------------------------------------------------------------------------
(* The claims *)

\* C1 (as claimed): on a feasible bounded LP, when status 0 is returned the
\* returned x meets A_ub*x <= b_ub, A_eq*x == b_eq and the bounds, and no
\* feasible point (of the grid) has a strictly smaller objective.
C1_Status0IsFeasibleAndOptimal ==
    (Returned /\ res.status = <<0>> /\ HasFiniteOptimum(prob)) =>
        /\ IsFeasible(prob, res.x)
        /\ \A y \in GridPoints(Len(prob.c)) :
              IsFeasible(prob, y) => RLe(Objective(prob, res.x), Objective(prob, y))

\* C2 (as claimed): status 3 is returned only for an LP without a finite
\* optimum, the engine sets status 3 only when the ratio test finds no row
\* with a positive coefficient, and maximizing x subject only to x >= 0
\* gives status 3.
C2_Status3OnlyIfUnbounded ==
    /\ (Returned /\ res.status = <<3>>) => ~HasFiniteOptimum(prob)
    /\ (status = <<3>>) => hist.eligible = <<0>>
    /\ \A cb \in BOOLEAN :
          (Returned /\ prob = UnboundedExample(DefaultMaxiter, cb)) => res.status = <<3>>

\* C3 (as claimed): when a run of the engine was stopped by the iteration
\* cap, linprog returns status 1; with a cap of 0 it returns status 1 and
\* never status 0.  (Stated for the feasible problems with default bounds
\* and a cap >= 0.)
C3_IterationCapGivesStatus1 ==
    (Returned /\ prob.maxiter >= 0 /\ prob.bounds = <<>> /\ HasGridFeasiblePoint(prob)) =>
        /\ 1 \in Range(hist.engine) => res.status = <<1>>
        /\ (prob.maxiter = 0 /\ hist.engine # <<>>) => res.status = <<1>>

\* C4: Phase 2 is entered only after Phase 1 returned status 0 with
\* |pseudo-objective| < tol; when Phase 1 returns with |pseudo-objective|
\* >= tol, linprog returns status 2 with success false and Phase 2 never
\* runs; x >= 5 and x <= 2 give status 2.
C4_PhaseTwoOnlyAfterFeasiblePhaseOne ==
    /\ phase = 2 => /\ hist.engine[1] = 0
                    /\ LtTol(RAbs(hist.pseudo[1]))
    /\ (Returned /\ hist.pseudo # <<>> /\ ~LtTol(RAbs(hist.pseudo[1]))) =>
          /\ res.status = <<2>>
          /\ ~res.success
          /\ phase = 1
          /\ Len(hist.engine) = 1
    /\ \A cb \in BOOLEAN :
          (Returned /\ prob = InfeasibleExample(DefaultMaxiter, cb)) => res.status = <<2>>

\* C4 witness: Phase 1 ended as optimal with a pseudo-objective that is not
\* zero, and linprog returned.
C4_Witness ==
    /\ Returned
    /\ hist.engine = <<0>>
    /\ hist.pseudo # <<>> /\ ~LtTol(RAbs(hist.pseudo[1]))
    /\ res.status = <<2>>

\* C5: the iteration counter counts the pivots of both phases (Phase 2
\* goes on from the count of Phase 1), the nit of the Result is the number
\* of pivots applied, and with maxiter >= 0 at most maxiter pivots are
\* applied.
C5_IterationCounterShared ==
    /\ nit = hist.pivots
    /\ Returned => res.nit = hist.pivots
    /\ prob.maxiter >= 0 => hist.pivots <= prob.maxiter
    /\ Returned /\ prob.maxiter >= 0 => res.nit <= prob.maxiter

\* C5 witness: both phases pivoted, and the cap stopped Phase 2.
C5_Witness ==
    /\ Returned
    /\ phase = 2
    /\ hist.nit1 # <<>> /\ hist.nit1[1] > 0
    /\ res.nit > hist.nit1[1]
    /\ res.nit = prob.maxiter
    /\ res.status = <<1>>

\* C6 (as claimed): with malformed bounds linprog returns status -1,
\* success false, nit 0 and an all-zero x, without raising, without a
\* tableau, a pivot or a call of the callback.
C6_InvalidBoundsReturnMinus1 ==
    (Ended /\ InvalidBounds(prob)) =>
        /\ pc = "done"
        /\ res.status = <<-1>>
        /\ ~res.success
        /\ res.nit = 0
        /\ AllZero(res.x)
        /\ T = <<>>
        /\ hist.pivots = 0
        /\ hist.calls = <<>>

\* C7: every Result has a status in {-1, 0, 1, 2, 3}, and success is true
\* exactly when the status is 0.
C7_StatusAndSuccess ==
    Returned =>
        /\ res.status \in {<<-1>>, <<0>>, <<1>>, <<2>>, <<3>>}
        /\ res.success <=> res.status = <<0>>

\* C7 witness: a Result with a status other than 0 returned after Phase 2.
C7_Witness ==
    /\ Returned
    /\ phase = 2
    /\ res.status = <<3>>
    /\ ~res.success

\* C8 (as claimed): the x of every Result has one entry per variable of
\* the caller.
C8_OneEntryPerVariable ==
    Returned => Len(res.x) = Len(prob.c)

\* C9 (as claimed): minimizing x0 + 4*x1 on the example of the docstring
\* ends with status 0, objective 80/7 and x = [-8/7, 18/7].
C9_DocExampleAsClaimed ==
    (Returned /\ prob = DocExample(<<1, 4>>, DefaultMaxiter, FALSE)) =>
        /\ res.status = <<0>>
        /\ res.fun = <<80, 7>>
        /\ res.x = <<<<-8, 7>>, <<18, 7>>>>

\* C9 (amended): on the example of the docstring, minimizing x0 - 4*x1
\* ends with status 0, objective -80/7 and x = [-8/7, 18/7] after 2
\* iterations; minimizing x0 + 4*x1 ends with status 0, objective -15 and
\* x = [-3, -3]; neither solve raises.
C9_DocExample ==
    \A cb \in BOOLEAN :
        /\ prob = DocExample(<<1, -4>>, DefaultMaxiter, cb) =>
              /\ pc # "raised"
              /\ Returned => /\ res.status = <<0>>
                             /\ res.fun = <<-80, 7>>
                             /\ res.x = <<<<-8, 7>>, <<18, 7>>>>
                             /\ res.nit = 2
        /\ prob = DocExample(<<1, 4>>, DefaultMaxiter, cb) =>
              /\ pc # "raised"
              /\ Returned => /\ res.status = <<0>>
                             /\ res.fun = <<-15, 1>>
                             /\ res.x = <<<<-3, 1>>, <<-3, 1>>>>

\* C9 witness: the solve of the example with c = [1, -4] has returned.
C9_Witness ==
    Returned /\ prob = DocExample(<<1, -4>>, DefaultMaxiter, FALSE)

\* C10 (as claimed): minimizing x for one free variable x with the only
\* constraint x >= -7 returns status 0 with x = -7.
C10_FreeVariableRecovered ==
    (Ended /\ prob = FreeExample(DefaultMaxiter, FALSE)) =>
        /\ pc = "done"
        /\ res.status = <<0>>
        /\ res.x = <<<<-7, 1>>>>

\* C11 (as claimed): the call with (0, +inf) given explicitly for every
\* variable ends as the call without bounds did, with the same Result
\* (status, x, objective, iteration count), for every n >= 1.
C11_ExplicitDefaultBoundsSame ==
    (Ended /\ first # <<>> /\ first[1].kind = "explicit") =>
        /\ pc = first[1].pc
        /\ res = first[1].res

\* C12 (as claimed): the same call made a second time with the same
\* objects ends as the first did, with the same status and the same
\* objective value.
C12_SecondSolveSame ==
    (Ended /\ first # <<>> /\ first[1].kind = "same") =>
        /\ pc = first[1].pc
        /\ res.status = first[1].res.status
        /\ res.fun = first[1].res.fun

\* C13 (as claimed): the call with bounds given as one pair ends as the
\* call with that pair given once for every variable does, with the same
\* Result, for every n >= 1.
C13_SinglePairAppliesToAll ==
    (Ended /\ first # <<>> /\ first[1].kind = "repeated") =>
        /\ pc = first[1].pc
        /\ res = first[1].res

\* the calls of the callback made in phase ph
CallsOfPhase(ph) == SelectSeq(hist.calls, LAMBDA cl : cl.phase = ph)

\* C14: with a callback, every pivot applied comes after a call of the
\* callback made in the same iteration, the last call before the pivot,
\* which was given the iteration count, the phase, the (row, column) of
\* the pivot and the tableau before the pivot; no call serves two pivots;
\* the iteration counts of the calls never decrease.
C14_PivotPrecededByCall ==
    prob.callback =>
        /\ \A k \in 1..Len(hist.applied) :
              LET e == hist.applied[k]
              IN  /\ e.calls \in 1..Len(hist.calls)
                  /\ hist.calls[e.calls].iter = e.iter
                  /\ hist.calls[e.calls].phase = e.phase
                  /\ hist.calls[e.calls].pivot = e.pivot
                  /\ hist.calls[e.calls].tableau = e.before
                  /\ ~hist.calls[e.calls].complete
                  /\ \A j \in 1..(k - 1) : hist.applied[j].calls < e.calls
        /\ \A k \in 1..(Len(hist.calls) - 1) :
              hist.calls[k].iter <= hist.calls[k + 1].iter

\* C14 witness: a solve with a callback that pivoted in both phases has
\* returned.
C14_Witness ==
    /\ Returned
    /\ prob.callback
    /\ \E j, k \in 1..Len(hist.applied) :
          hist.applied[j].phase = 1 /\ hist.applied[k].phase = 2

\* C15 (as claimed): when a phase run with a callback has ended, the last
\* call of that phase was given complete = True and a pivot of none, and
\* every earlier call of the phase complete = False.
C15_LastCallComplete ==
    (prob.callback /\ pc \in {"ret1", "ret2"}) =>
        LET cs == CallsOfPhase(phase)
        IN  /\ cs # <<>>
            /\ cs[Len(cs)].complete
            /\ cs[Len(cs)].pivot[1] = <<>>
            /\ \A k \in 1..(Len(cs) - 1) : ~cs[k].complete

\* lpsimplex has left its loop: it returned, or _get_basics raised; T is
\* still the tableau it worked on
EngineEnded == pc \in {"ret1", "ret2"} \/ (pc = "raised" /\ T # <<>>)

\* C16 (as claimed): an iteration that finds every coefficient of the
\* active objective row >= -tol ends the phase with status 0 and applies no
\* pivot: the engine never ends with status 3 on such a tableau, and never
\* pivots on one.
C16_OptimalEndsWithStatus0 ==
    /\ (EngineEnded /\ status = <<3>>) => ~IsOptimal(T)
    /\ \A k \in 1..Len(hist.applied) : ~IsOptimal(hist.applied[k].before)

\* C17 (as claimed): the row of every pivot applied has a strictly
\* positive entry in the pivot column and the minimum ratio among such
\* rows, whatever the cycle counter; and status 3 is set only when no row
\* has a strictly positive entry in the pivot column.
C17_MinimumRatioRow ==
    /\ \A k \in 1..Len(hist.applied) :
          LET e == hist.applied[k]
              r == e.pivot[1][1]
              col == e.pivot[2]
              el == Eligible(e.before, e.phase, col)
          IN  /\ r \in el
              /\ \A q \in el : RLe(Ratio(e.before, r, col), Ratio(e.before, q, col))
    /\ (EngineEnded /\ status = <<3>>) => hist.eligible = <<0>>

\* the columns _get_basics reads as basic, and the row of the single 1 of
\* such a column
BasicColumns(t) == {col \in 1..(NCols(t) - 1) : IsBasicColumn(t, col)}
RowOfOne(t, col) == CHOOSE r \in 1..NRows(t) : t[r][col] = One

\* C18 (as claimed): in the tableau of a phase that ended with status 0,
\* no two columns read as basic have their 1 in the same row, and every
\* constraint row holds the 1 of a column read as basic.
C18_OneBasicColumnPerRow ==
    (EngineEnded /\ status = <<0>>) =>
        /\ \A c1, c2 \in BasicColumns(T) :
              c1 # c2 => RowOfOne(T, c1) # RowOfOne(T, c2)
        /\ \A r \in ConstraintRows(T, phase) :
              \E col \in BasicColumns(T) : RowOfOne(T, col) = r

\* C19 (as claimed): in the tableau as built and after every pivot of
\* Phase 1 and Phase 2, the right-hand side of every constraint row is
\* >= 0.
C19_RhsNonNegative ==
    pc \in {"loop", "ret1", "ret2"} =>
        \A r \in ConstraintRows(T, phase) : RLe(Zero, T[r][NCols(T)])

\* C20 (as claimed): lpsimplex called with a phase other than 1 and 2
\* returns status -1 and has applied no pivot.
C20_BadPhaseStatusMinus1 ==
    (EngineEnded /\ phase \notin {1, 2}) =>
        /\ status = <<-1>>
        /\ hist.pivots = 0

\* C21 (as claimed): when linprog has returned, with any status, the
\* arrays given as c, A_ub, b_ub, A_eq and b_eq hold the values they held
\* before the call, whatever the bounds.
C21_CallerArraysUnchanged ==
    Returned => args = ArraysOf(prob)

====
